---- MODULE Spec2Model ----
(***************************************************************************)
(* fiware-ambassador-auth: the token Holder (token/holder.go, the version  *)
(* with AUTH_TOKENS_PATH and the fsnotify monitor) and the request handler *)
(* with its five LRU caches (the version of the handler with hosts).       *)
(*                                                                         *)
(* Strings are TLA+ strings; "\t" and "\n" are the tab and the newline.    *)
(***************************************************************************)
EXTENDS Integers, Sequences, FiniteSets, TLC

(***************************************************************************)
(* Bounds of the model.                                                    *)
(***************************************************************************)
\* capacity of each LRU cache; the program uses 1024 (lru.New(1024))
CacheSize == 1
\* requests accepted over the life of the process
MaxRequests == 2
\* changes made to the configuration file by the environment
MaxFileChanges == 1

Null == "<nil>"

(***************************************************************************)
(* String helpers.                                                         *)
(***************************************************************************)
CharAt(s, i) == SubSeq(s, i, i)

HasPrefix(s, p) == Len(s) >= Len(p) /\ SubSeq(s, 1, Len(p)) = p

\* index of the first occurrence of the one-character string c in s, 0 if none
IndexOf(s, c) ==
    IF \E i \in 1..Len(s) : CharAt(s, i) = c
    THEN CHOOSE i \in 1..Len(s) :
            /\ CharAt(s, i) = c
            /\ \A j \in 1..(i - 1) : CharAt(s, j) # c
    ELSE 0

\* s and lit are equal when letters are compared without case (lit is lower case)
Lower == "abcdefghijklmnopqrstuvwxyz"
Upper == "ABCDEFGHIJKLMNOPQRSTUVWXYZ"
ToLower(c) == IF IndexOf(Upper, c) > 0 THEN CharAt(Lower, IndexOf(Upper, c)) ELSE c
EqualFold(s, lit) ==
    /\ Len(s) = Len(lit)
    /\ \A i \in 1..Len(s) : ToLower(CharAt(s, i)) = CharAt(lit, i)

(***************************************************************************)
(* regexp: the patterns that occur in the configuration documents of the   *)
(* model.  A pattern that does not compile has ok = FALSE.                 *)
(***************************************************************************)
RegexpTable ==
    [p \in {".+", "^api[.].+$", "^/a/.+$", "^/m/.+$", "["} |->
        CASE p = ".+"          -> [ok |-> TRUE,  prefix |-> "",     min |-> 1]
          [] p = "^api[.].+$"  -> [ok |-> TRUE,  prefix |-> "api.", min |-> 1]
          [] p = "^/a/.+$"     -> [ok |-> TRUE,  prefix |-> "/a/",  min |-> 1]
          [] p = "^/m/.+$"     -> [ok |-> TRUE,  prefix |-> "/m/",  min |-> 1]
          [] p = "["           -> [ok |-> FALSE, prefix |-> "",     min |-> 0]]

\* regexp.Compile(p) succeeds
Compiles(p) == p \in DOMAIN RegexpTable /\ RegexpTable[p].ok

\* regexp.MustCompile(p).MatchString(s), for a pattern that compiles:
\* the prefix, then at least min characters, none of them a newline
MatchString(p, s) ==
    /\ HasPrefix(s, RegexpTable[p].prefix)
    /\ Len(s) - Len(RegexpTable[p].prefix) >= RegexpTable[p].min
    /\ IndexOf(SubSeq(s, Len(RegexpTable[p].prefix) + 1, Len(s)), "\n") = 0

(***************************************************************************)
(* basicRe, tokenRe, basicUserRe and base64.                               *)
(***************************************************************************)
\* basicReStr and bearerReStr, scheme without case, then a space, then the
\* captured group of one or more characters other than newline; Null when
\* the header does not match
SchemeRe(scheme, header) ==
    LET n == Len(scheme) + 1 IN
    IF /\ Len(header) > n
       /\ EqualFold(SubSeq(header, 1, n - 1), scheme)
       /\ CharAt(header, n) = " "
       /\ IndexOf(SubSeq(header, n + 1, Len(header)), "\n") = 0
    THEN SubSeq(header, n + 1, Len(header))
    ELSE Null

basicRe(header) == SchemeRe("basic", header)
tokenRe(header) == SchemeRe("bearer", header)

B64Alphabet == "ABCDEFGHIJKLMNOPQRSTUVWXYZabcdefghijklmnopqrstuvwxyz0123456789+/"
\* the characters of the codes 32..126 (the double quote, the quote, the
\* backquote and the backslash, which no input of the model decodes to, are written ?)
Ascii == " !?#$%&?()*+,-./0123456789:;<=>?@ABCDEFGHIJKLMNOPQRSTUVWXYZ[?]^_?abcdefghijklmnopqrstuvwxyz{|}~"
Chr(b) == IF b = 10 THEN "\n"
          ELSE IF b = 9 THEN "\t"
          ELSE IF b >= 32 /\ b <= 126 THEN CharAt(Ascii, b - 31)
          ELSE "?"

B64Val(c) == IndexOf(B64Alphabet, c) - 1

\* the three bytes (as characters) of one group of four base64 characters,
\* fewer when the group is padded
B64Quantum(q) ==
    LET pad == IF CharAt(q, 3) = "=" THEN 2 ELSE IF CharAt(q, 4) = "=" THEN 1 ELSE 0
        v(i) == IF CharAt(q, i) = "=" THEN 0 ELSE B64Val(CharAt(q, i))
        n == v(1) * 262144 + v(2) * 4096 + v(3) * 64 + v(4)
        b1 == Chr(n \div 65536)
        b2 == Chr((n \div 256) % 256)
        b3 == Chr(n % 256)
    IN  IF pad = 2 THEN b1 ELSE IF pad = 1 THEN b1 \o b2 ELSE b1 \o b2 \o b3

\* base64.StdEncoding.DecodeString: err for a length that is not a multiple
\* of four, a character outside the alphabet, or padding that is not at the end
B64Valid(s) ==
    /\ Len(s) % 4 = 0
    /\ \A i \in 1..Len(s) :
          \/ B64Val(CharAt(s, i)) >= 0
          \/ /\ CharAt(s, i) = "="
             /\ i >= Len(s) - 1
             /\ (i = Len(s) - 1 => CharAt(s, Len(s)) = "=")

RECURSIVE B64Decode(_)
B64Decode(s) ==
    IF Len(s) = 0 THEN ""
    ELSE B64Quantum(SubSeq(s, 1, 4)) \o B64Decode(SubSeq(s, 5, Len(s)))

DecodeString(s) ==
    IF B64Valid(s) THEN [err |-> FALSE, val |-> B64Decode(s)]
    ELSE [err |-> TRUE, val |-> ""]

\* basicUserReStr, FindAllStringSubmatch: one or more characters other than
\* a colon, a colon, one or more characters other than newline; the list of matches,
\* empty when the text does not match; a match is <<whole, user, password>>
basicUserRe(text) ==
    LET c == IndexOf(text, ":")
        rest == SubSeq(text, c + 1, Len(text))
    IN  IF c > 1 /\ Len(rest) > 0 /\ IndexOf(rest, "\n") = 0
        THEN << <<text, SubSeq(text, 1, c - 1), rest>> >>
        ELSE << >>

(***************************************************************************)
(* Configuration documents.  A JSON member is absent, present with the     *)
(* expected JSON type, or present with another type.                       *)
(***************************************************************************)
Some(v) == [present |-> TRUE, typed |-> TRUE, v |-> v]
None(zero) == [present |-> FALSE, typed |-> TRUE, v |-> zero]
BadType(zero) == [present |-> TRUE, typed |-> FALSE, v |-> zero]

NoSettings == [bearer_tokens |-> None(<< >>), basic_auths |-> None(<< >>),
               no_auths |-> None([allowed_paths |-> None(<< >>)])]

\* one bearer_tokens item, one basic_auths item, one entry of the top-level array
Bearer(token, paths) == [token |-> Some(token), allowed_paths |-> Some(paths)]
Basic(user, pass, paths) ==
    [username |-> Some(user), password |-> Some(pass), allowed_paths |-> Some(paths)]
Entry(host, bearers, basics, noAuth) ==
    [host |-> Some(host),
     settings |-> Some([bearer_tokens |-> Some(bearers), basic_auths |-> Some(basics),
                        no_auths |-> Some([allowed_paths |-> noAuth])])]
JsonArray(items) == [syntax |-> TRUE, array |-> TRUE, items |-> items, empty |-> FALSE]

\* "[]", the text loadFile and loadEnv fall back to
EmptyArray == JsonArray(<< >>)
\* bytes that are not a JSON text (also what a failed ReadAll leaves)
NotJson == [syntax |-> FALSE, array |-> FALSE, items |-> << >>, empty |-> FALSE]
\* a JSON text that is not an array (an object)
NotArray == [syntax |-> TRUE, array |-> FALSE, items |-> << >>, empty |-> FALSE]
\* the text of length zero
EmptyText == [syntax |-> FALSE, array |-> FALSE, items |-> << >>, empty |-> TRUE]

\* one host; /m/ is guarded by basic auth, and the bearer token T1 is allowed
\* /a/ and /m/
DocA ==
    JsonArray(<< Entry("^api[.].+$",
                       << Bearer("T1", <<"^/a/.+$", "^/m/.+$">>) >>,
                       << Basic("u", "pw", <<"^/m/.+$">>) >>,
                       None(<< >>)) >>)
\* two host patterns that both match api.x.com; the first exempts /a/ from
\* authentication, the second guards /a/ by basic auth and allows T1 /a/ only
DocB ==
    JsonArray(<< Entry(".+", << >>, << >>, Some(<<"^/a/.+$">>)),
                 Entry("^api[.].+$",
                       << Bearer("T1", <<"^/a/.+$">>) >>,
                       << Basic("u", "pw", <<"^/a/.+$">>) >>,
                       Some(<< >>)) >>)
\* a valid entry followed by an entry without "settings"
DocBad ==
    JsonArray(<< Entry("^api[.].+$", << Bearer("T1", <<"^/a/.+$">>) >>, << >>, None(<< >>)),
                 [host |-> Some(".+"), settings |-> None(NoSettings)] >>)

\* allowed_paths of bearer tokens: T1 has a pattern that does not compile before
\* one that does, T2 has none, T3 has only a pattern that does not compile; the
\* second host has T1 with another pattern
DocC ==
    JsonArray(<< Entry("^api[.].+$",
                       << Bearer("T1", <<"[", "^/a/.+$">>), Bearer("T2", << >>),
                          Bearer("T3", <<"[">>) >>,
                       << >>, Some(<< >>)),
                 Entry(".+", << Bearer("T1", <<"^/m/.+$">>) >>, << >>, Some(<< >>)) >>)
\* two hosts of which only the second matches web.x.com; the first has a no-auth
\* path, a basic-auth user and the token T1, the second only the token T2
DocD ==
    JsonArray(<< Entry("^api[.].+$",
                       << Bearer("T1", <<"^/a/.+$">>) >>,
                       << Basic("u", "pw", <<"^/m/.+$">>) >>,
                       Some(<<"^/a/.+$">>)),
                 Entry(".+", << Bearer("T2", <<"^/m/.+$">>) >>, << >>, Some(<< >>)) >>)
\* basic_auths with two users on one path pattern, one user on two patterns and
\* one user without allowed path
DocE ==
    JsonArray(<< Entry("^api[.].+$",
                       << Bearer("T1", <<"^/a/.+$">>) >>,
                       << Basic("u", "pw", <<"^/a/.+$", "^/m/.+$">>),
                          Basic("v", "pw2", <<"^/m/.+$">>),
                          Basic("x", "pw3", << >>) >>,
                       Some(<< >>)) >>)
\* two entries with the same host string: each has its own token and its own
\* basic-auth user, and only the first has a no-auth path
DocDup ==
    JsonArray(<< Entry("^api[.].+$",
                       << Bearer("T1", <<"^/a/.+$">>) >>,
                       << Basic("u", "pw", <<"^/m/.+$">>) >>,
                       Some(<<"^/a/.+$">>)),
                 Entry("^api[.].+$",
                       << Bearer("T2", <<"^/m/.+$">>) >>,
                       << Basic("v", "pw2", <<"^/m/.+$">>) >>,
                       Some(<< >>)) >>)
\* a host pattern that does not compile, then a valid host
DocHostBad ==
    JsonArray(<< Entry("[", << >>, << >>, Some(<< >>)),
                 Entry("^api[.].+$", << Bearer("T1", <<"^/a/.+$">>) >>, << >>,
                       Some(<< >>)) >>)
\* a no-auth path pattern that does not compile, then a valid one
DocNoAuthBad ==
    JsonArray(<< Entry("^api[.].+$", << Bearer("T1", <<"^/m/.+$">>) >>, << >>,
                       Some(<<"[", "^/a/.+$">>)) >>)
\* a basic-auth path pattern that does not compile and a valid one
DocBasicBad ==
    JsonArray(<< Entry("^api[.].+$", << Bearer("T1", <<"^/a/.+$">>) >>,
                       << Basic("u", "pw", <<"[", "^/m/.+$">>) >>, Some(<< >>)) >>)
\* structural violations, each next to a valid entry: no host; a bearer token
\* without token; basic-auth allowed_paths that is not a list
DocNoHost ==
    JsonArray(<< Entry("^api[.].+$", << Bearer("T1", <<"^/a/.+$">>) >>, << >>, None(<< >>)),
                 [host |-> None(""),
                  settings |-> Some([bearer_tokens |-> Some(<< >>), basic_auths |-> Some(<< >>),
                                     no_auths |-> Some([allowed_paths |-> None(<< >>)])])] >>)
DocNoToken ==
    JsonArray(<< Entry("^api[.].+$",
                       << Bearer("T1", <<"^/a/.+$">>),
                          [token |-> None(""), allowed_paths |-> Some(<<"^/m/.+$">>)] >>,
                       << >>, None(<< >>)) >>)
DocPathsNotList ==
    JsonArray(<< Entry("^api[.].+$", << Bearer("T1", <<"^/a/.+$">>) >>,
                       << [username |-> Some("u"), password |-> Some("pw"),
                           allowed_paths |-> BadType(<< >>)] >>,
                       None(<< >>)) >>)

(***************************************************************************)
(* json.Unmarshal with the UnmarshalJSON methods of hostSettings,          *)
(* authTokens, bearerTokens, basicAuths and noAuths.                       *)
(***************************************************************************)
AllOf(seq, P(_)) == \A i \in 1..Len(seq) : P(seq[i])

bearerTokensOK(b) ==
    /\ b.token.typed /\ b.allowed_paths.typed
    /\ b.token.present
    /\ b.allowed_paths.present

basicAuthsOK(a) ==
    /\ a.username.typed /\ a.password.typed /\ a.allowed_paths.typed
    /\ a.username.present
    /\ a.password.present
    /\ a.allowed_paths.present

noAuthsOK(n) == n.allowed_paths.typed

authTokensOK(t) ==
    /\ t.bearer_tokens.typed /\ t.basic_auths.typed /\ t.no_auths.typed
    /\ t.bearer_tokens.present => AllOf(t.bearer_tokens.v, bearerTokensOK)
    /\ t.basic_auths.present => AllOf(t.basic_auths.v, basicAuthsOK)
    /\ t.no_auths.present => noAuthsOK(t.no_auths.v)
    /\ t.bearer_tokens.present
    /\ t.basic_auths.present
    /\ t.no_auths.present

hostSettingsOK(h) ==
    /\ h.host.typed /\ h.settings.typed
    /\ h.settings.present => authTokensOK(h.settings.v)
    /\ h.host.present
    /\ h.settings.present

\* the value UnmarshalJSON stores for one entry
hostSettingsOf(h) ==
    [Host |-> h.host.v,
     BearerTokens |-> [i \in 1..Len(h.settings.v.bearer_tokens.v) |->
                          [Token |-> h.settings.v.bearer_tokens.v[i].token.v,
                           RawAllowedPaths |-> h.settings.v.bearer_tokens.v[i].allowed_paths.v]],
     BasicAuths |-> [i \in 1..Len(h.settings.v.basic_auths.v) |->
                          [Username |-> h.settings.v.basic_auths.v[i].username.v,
                           Password |-> h.settings.v.basic_auths.v[i].password.v,
                           RawAllowedPaths |-> h.settings.v.basic_auths.v[i].allowed_paths.v]],
     NoAuths |-> IF h.settings.v.no_auths.v.allowed_paths.present
                 THEN h.settings.v.no_auths.v.allowed_paths.v
                 ELSE << >>]

\* json.Unmarshal(rawTokens, &hostSettingsList)
Unmarshal(rawTokens) ==
    IF rawTokens.syntax /\ rawTokens.array /\ AllOf(rawTokens.items, hostSettingsOK)
    THEN [err |-> FALSE,
          list |-> [i \in 1..Len(rawTokens.items) |-> hostSettingsOf(rawTokens.items[i])]]
    ELSE [err |-> TRUE, list |-> << >>]

(***************************************************************************)
(* Holder: Go maps are functions; a lookup of a missing key gives the zero *)
(* value (an empty map, an empty slice).                                   *)
(***************************************************************************)
EmptyMap == [k \in {} |-> Null]
MapGet(m, k, zero) == IF k \in DOMAIN m THEN m[k] ELSE zero
MapPut(m, k, v) == [y \in (DOMAIN m) \cup {k} |-> IF y = k THEN v ELSE m[y]]

RECURSIVE FoldSeq(_, _, _, _)
\* acc after Op(acc, seq[i]) for i = from..Len(seq), in order
FoldSeq(Op(_, _), acc, seq, from) ==
    IF from > Len(seq) THEN acc
    ELSE FoldSeq(Op, Op(acc, seq[from]), seq, from + 1)

\* the local variables of makeHolder before the loop
EmptyHolder ==
    [hosts |-> << >>,
     bearerTokenAllowedPaths |-> EmptyMap,
     bearerTokens |-> EmptyMap,
     basicAuthPaths |-> EmptyMap,
     noAuthPaths |-> EmptyMap]

HolderFields == {"hosts", "bearerTokenAllowedPaths", "bearerTokens", "basicAuthPaths", "noAuthPaths"}

\* a variant of sl: one pattern that does not compile discards every pattern
CompiledPathsAllOrNothing(rawAllowedPaths) ==
    IF \A k \in 1..Len(rawAllowedPaths) : Compiles(rawAllowedPaths[k])
    THEN rawAllowedPaths
    ELSE << >>

\* sl: the allowed paths of a bearer token that compile, in document order
CompiledPaths(rawAllowedPaths) == SelectSeq(rawAllowedPaths, Compiles)

\* a variant of the loop over BearerTokens: the token is recorded whether or not
\* one of its patterns compiles
AddBearerTokenAlways(h, host, bearerToken) ==
    LET sl == CompiledPaths(bearerToken.RawAllowedPaths) IN
    [h EXCEPT
        !.bearerTokenAllowedPaths =
            MapPut(@, host, MapPut(MapGet(@, host, EmptyMap), bearerToken.Token, sl)),
        !.bearerTokens =
            MapPut(@, host, Append(MapGet(@, host, << >>), bearerToken.Token))]

\* the body of the loop over BearerTokens
AddBearerToken(h, host, bearerToken) ==
    LET sl == CompiledPaths(bearerToken.RawAllowedPaths) IN
    IF Len(sl) > 0
    THEN [h EXCEPT
            !.bearerTokenAllowedPaths =
                MapPut(@, host, MapPut(MapGet(@, host, EmptyMap), bearerToken.Token, sl)),
            !.bearerTokens =
                MapPut(@, host, Append(MapGet(@, host, << >>), bearerToken.Token))]
    ELSE h

\* a variant of the loop over BasicAuths: the users of a path pattern are
\* replaced by the user of the item, not added to
AddBasicAuthReplace(h, host, basicAuth) ==
    LET put(m, rawAllowedPath) ==
            MapPut(m, rawAllowedPath, MapPut(EmptyMap, basicAuth.Username, basicAuth.Password))
    IN  IF Len(basicAuth.RawAllowedPaths) > 0
        THEN [h EXCEPT !.basicAuthPaths =
                MapPut(@, host,
                       FoldSeq(put, MapGet(@, host, EmptyMap), basicAuth.RawAllowedPaths, 1))]
        ELSE h

\* the body of the loop over BasicAuths
AddBasicAuth(h, host, basicAuth) ==
    LET put(m, rawAllowedPath) ==
            MapPut(m, rawAllowedPath,
                   MapPut(MapGet(m, rawAllowedPath, EmptyMap),
                          basicAuth.Username, basicAuth.Password))
    IN  IF Len(basicAuth.RawAllowedPaths) > 0
        THEN [h EXCEPT !.basicAuthPaths =
                MapPut(@, host,
                       FoldSeq(put, MapGet(@, host, EmptyMap), basicAuth.RawAllowedPaths, 1))]
        ELSE h

\* a variant of the loop over hostSettingsList: the no-auth paths of an entry
\* are added to those of the earlier entries of the host
AddHostSettingsMerge(h, hs) ==
    LET h1 == [h EXCEPT !.hosts = Append(@, hs.Host)]
        addBearer(a, b) == AddBearerToken(a, hs.Host, b)
        h2 == FoldSeq(addBearer, h1, hs.BearerTokens, 1)
        addBasic(a, b) == AddBasicAuth(a, hs.Host, b)
        h3 == FoldSeq(addBasic, h2, hs.BasicAuths, 1)
    IN  [h3 EXCEPT !.noAuthPaths = MapPut(@, hs.Host, MapGet(@, hs.Host, << >>) \o hs.NoAuths)]

\* the body of the loop over hostSettingsList
AddHostSettings(h, hs) ==
    LET h1 == [h EXCEPT !.hosts = Append(@, hs.Host)]
        addBearer(a, b) == AddBearerToken(a, hs.Host, b)
        h2 == FoldSeq(addBearer, h1, hs.BearerTokens, 1)
        addBasic(a, b) == AddBasicAuth(a, hs.Host, b)
        h3 == FoldSeq(addBasic, h2, hs.BasicAuths, 1)
    IN  [h3 EXCEPT !.noAuthPaths = MapPut(@, hs.Host, hs.NoAuths)]

\* the five values makeHolder assigns to the fields of the holder
makeHolder(rawTokens) ==
    LET u == Unmarshal(rawTokens) IN
    IF ~u.err THEN FoldSeq(AddHostSettings, EmptyHolder, u.list, 1)
    ELSE EmptyHolder

GetHosts(holder) == holder.hosts
GetTokens(holder, host) == MapGet(holder.bearerTokens, host, << >>)
\* a variant of HasToken: the token is looked up under every host
HasTokenAnyHost(holder, host, token) ==
    \E h \in DOMAIN holder.bearerTokenAllowedPaths :
        token \in DOMAIN holder.bearerTokenAllowedPaths[h]
HasToken(holder, host, token) ==
    token \in DOMAIN MapGet(holder.bearerTokenAllowedPaths, host, EmptyMap)
GetAllowedPaths(holder, host, token) ==
    MapGet(MapGet(holder.bearerTokenAllowedPaths, host, EmptyMap), token, << >>)
GetBasicAuthConf(holder, host) == MapGet(holder.basicAuthPaths, host, EmptyMap)
GetNoAuthPaths(holder, host) == MapGet(holder.noAuthPaths, host, << >>)

(***************************************************************************)
(* lru.Cache: the entries from the most to the least recently used.        *)
(***************************************************************************)
CacheContains(c, k) == \E i \in 1..Len(c) : c[i].k = k

CacheWithout(c, k) == SelectSeq(c, LAMBDA e : e.k # k)

\* a variant of Add: nothing is evicted
CacheAddUnbounded(c, k, v) == <<[k |-> k, v |-> v]>> \o CacheWithout(c, k)

\* Add: an existing key is updated and moved to the front; a new key is put
\* at the front and the oldest entry is evicted when the cache is over its size
CacheAdd(c, k, v) ==
    LET n == <<[k |-> k, v |-> v]>> \o CacheWithout(c, k) IN
    IF Len(n) > CacheSize THEN SubSeq(n, 1, CacheSize) ELSE n

\* Get: the value (zero when the key is absent); a hit moves the entry to the front
CacheValue(c, k, zero) ==
    IF CacheContains(c, k) THEN (CHOOSE e \in {c[i] : i \in 1..Len(c)} : e.k = k).v ELSE zero

CacheGet(c, k) ==
    IF CacheContains(c, k)
    THEN <<CHOOSE e \in {c[i] : i \in 1..Len(c)} : e.k = k>> \o CacheWithout(c, k)
    ELSE c

(***************************************************************************)
(* main: getListenPort and strconv.Atoi.                                   *)
(***************************************************************************)
defaultPort == "8080"

Digits == "0123456789"

RECURSIVE Magnitude(_, _, _)
\* n*10 + ch over the digits of s from position i on; a value above the range of
\* ports is kept as 65536, the only use of it being the comparison with 65535
Magnitude(s, i, n) ==
    IF i > Len(s) THEN n
    ELSE LET m == n * 10 + (IndexOf(Digits, CharAt(s, i)) - 1)
         IN  Magnitude(s, i + 1, IF m > 65536 THEN 65536 ELSE m)

\* strconv.Atoi with a 64-bit int: an optional sign, then decimal digits; err
\* is a syntax error (no digit, or a character that is not a digit) or a range
\* error (a value outside of int64)
Atoi(s) ==
    LET neg == HasPrefix(s, "-")
        body == IF neg \/ HasPrefix(s, "+") THEN SubSeq(s, 2, Len(s)) ELSE s
        syntax == Len(body) = 0 \/ \E i \in 1..Len(body) : IndexOf(Digits, CharAt(body, i)) = 0
        zeros == IF \E i \in 1..Len(body) : CharAt(body, i) # "0"
                 THEN (CHOOSE i \in 1..Len(body) :
                          /\ CharAt(body, i) # "0"
                          /\ \A j \in 1..(i - 1) : CharAt(body, j) = "0") - 1
                 ELSE Len(body)
        sig == SubSeq(body, zeros + 1, Len(body))
        limit == IF neg THEN "9223372036854775808" ELSE "9223372036854775807"
        range == \/ Len(sig) > Len(limit)
                 \/ /\ Len(sig) = Len(limit)
                    /\ \E i \in 1..Len(sig) :
                          /\ SubSeq(sig, 1, i - 1) = SubSeq(limit, 1, i - 1)
                          /\ IndexOf(Digits, CharAt(sig, i)) > IndexOf(Digits, CharAt(limit, i))
    IN  IF syntax THEN [err |-> TRUE, n |-> 0]
        ELSE IF range THEN [err |-> TRUE, n |-> IF neg THEN -65536 ELSE 65536]
        ELSE [err |-> FALSE,
              n |-> IF neg THEN 0 - Magnitude(body, 1, 0) ELSE Magnitude(body, 1, 0)]

\* a variant of getListenPort: the port 0 is accepted
getListenPortFromZero(e) ==
    LET port == IF e.present THEN e.v ELSE ""
        port1 == IF Len(port) = 0 THEN defaultPort ELSE port
        a == Atoi(port1)
    IN  IF a.err \/ a.n < 0 \/ 65535 < a.n THEN ":" \o defaultPort ELSE ":" \o port1

\* getListenPort; e is LISTEN_PORT in the environment, of which os.Getenv
\* gives the value, or the empty string when it is not set
getListenPort(e) ==
    LET port == IF e.present THEN e.v ELSE ""
        port1 == IF Len(port) = 0 THEN defaultPort ELSE port
        a == Atoi(port1)
    IN  IF a.err \/ a.n < 1 \/ 65535 < a.n THEN ":" \o defaultPort ELSE ":" \o port1

(***************************************************************************)
(* State.                                                                  *)
(***************************************************************************)
TokensPath == "/etc/tokens.json"

\* the documents the file and AUTH_TOKENS take in the model
Documents == {DocA, DocB, DocBad}

\* the documents AUTH_TOKENS takes in static mode
StaticDocuments == Documents \cup {DocC, DocD}
\* the documents AUTH_TOKENS and the file take when the process starts
LoadDocuments ==
    StaticDocuments \cup {DocE, DocDup, DocHostBad, DocNoAuthBad, DocBasicBad, DocNoHost, DocNoToken,
                          DocPathsNotList, NotJson, NotArray, EmptyText, EmptyArray}

Domains == {"api.x.com", "web.x.com"}
Paths == {"/a/1", "/m/x"}
\* no header, a bearer token, Basic u:pw, Basic upw (credentials without a colon)
AuthHeaders == {"", "Bearer T1", "Basic dTpwdw==", "Basic dXB3"}
\* the headers of the requests in static mode: also a token without allowed path
StaticHeaders == AuthHeaders \cup {"Bearer T2"}
\* the headers of the requests after a start from any configuration
StartHeaders == {"", "Bearer T1", "Basic dTpwdw=="}

\* concurrent requests
NumWorkers == 2
Workers == 1..NumWorkers

Verdicts == {"DomainDenied", "NoAuthGranted", "BasicAuthRequired", "BasicAuthGranted",
             "BearerHeaderMissing", "BearerTokenUnknown", "BearerPathDenied",
             "BearerPathGranted"}
\* a panic in the NoRoute closure, answered 500 by the recovery middleware
Fault == "Fault"

\* the HTTP status of the response
StatusOf(verdict) ==
    CASE verdict = "DomainDenied" -> "403"
      [] verdict = "BearerHeaderMissing" -> "401"
      [] verdict = "BearerTokenUnknown" -> "401"
      [] verdict = "BearerPathDenied" -> "403"
      [] verdict = "BasicAuthRequired" -> "401"
      [] verdict \in {"NoAuthGranted", "BasicAuthGranted", "BearerPathGranted"} -> "200"
      [] OTHER -> "500"

MatchFunctions == {"matchHost", "matchNoAuthPath", "matchBasicAuthPath",
                   "verifyBasicAuth", "matchBearerAuthPath"}

VARIABLES
    env,      \* AUTH_TOKENS_PATH and AUTH_TOKENS at start
    file,     \* the content of the file at AUTH_TOKENS_PATH, absent when it does not exist
    holder,   \* the Holder shared by the handler and the monitor
    caches,   \* the five LRU caches of the Handler
    req,      \* the request each worker goroutine is handling
    mon,      \* the monitor goroutine; err: its last loadFile failed
    watch,    \* the watcher holds a watch on the present file
    events,   \* change notifications not yet received from watcher.Events
    nreq,     \* requests accepted so far
    nchg,     \* changes made to the file so far
    listen    \* LISTEN_PORT at start, and the address handed to handler.Run

vars == <<env, file, holder, caches, req, mon, watch, events, nreq, nchg, listen>>

\* a goroutine without a request.  fn: the match function being called; ph: the
\* position in it; method: the HTTP method, which the closure never reads; host: the host matchHost returned; arg, conf: the slice or
\* the map read from the holder for the call; rest: what the loop has still to
\* visit; verdict: the answer.  Two fields record history: dirty, a field of the
\* holder was written since the request arrived; after, the goroutines whose
\* request was already answered when this one arrived
Idle ==
    [fn |-> "", ph |-> "idle", method |-> "", domain |-> "", path |-> "", authHeader |-> "",
     host |-> "", arg |-> << >>, conf |-> EmptyMap, rest |-> << >>, verdict |-> "",
     dirty |-> FALSE, after |-> {}]

MonOff == [pc |-> "off", new |-> EmptyHolder, pending |-> {}, err |-> FALSE]

(***************************************************************************)
(* NewHolder, loadFile, loadEnv.                                           *)
(***************************************************************************)
\* rawTokens of loadFile: the content read, "[]" when the file cannot be
\* opened, what was read before the error when ReadAll fails
FileRawTokens(rawTokensPath, f, readErr) ==
    IF Len(rawTokensPath) # 0 /\ f.present
    THEN IF readErr THEN NotJson ELSE f.v
    ELSE EmptyArray

\* rawTokens of loadEnv
EnvRawTokens(e) ==
    IF e.tokens.present /\ ~e.tokens.v.empty THEN e.tokens.v ELSE EmptyArray

\* loadFile fails: Open or ReadAll gives an error, or makeHolder logs
\* "AUTH_TOKENS parse failed"
LoadFails(rawTokensPath, f, readErr) ==
    \/ Len(rawTokensPath) = 0
    \/ ~f.present
    \/ Unmarshal(FileRawTokens(rawTokensPath, f, readErr)).err

\* a variant of NewHolder: AUTH_TOKENS, when it is set, is taken before the file
NewHolderEnvFirst(e, f) ==
    IF e.tokens.present THEN makeHolder(EnvRawTokens(e))
    ELSE makeHolder(FileRawTokens(e.path, f, FALSE))

\* the holder NewHolder returns
NewHolder(e, f) ==
    IF Len(e.path) # 0 THEN makeHolder(FileRawTokens(e.path, f, FALSE))
    ELSE makeHolder(EnvRawTokens(e))

Start0 ==
    /\ caches = [f \in MatchFunctions |-> << >>]
    /\ req = [w \in Workers |-> Idle]
    /\ watch = FALSE
    /\ events = 0
    /\ nreq = 0
    /\ nchg = 0
    /\ listen = [port |-> None(""), addr |-> getListenPort(None(""))]

\* static mode: AUTH_TOKENS_PATH is empty, the policy comes from AUTH_TOKENS and
\* no monitor is started
InitStatic ==
    /\ env \in [path : {""}, tokens : {None(EmptyArray)} \cup {Some(d) : d \in StaticDocuments}]
    /\ file = None(EmptyArray)
    /\ mon = MonOff
    /\ holder = NewHolder(env, file)
    /\ Start0

\* file-backed mode: the policy comes from the file and the monitor is started
InitFile ==
    /\ env = [path |-> TokensPath, tokens |-> None(EmptyArray)]
    /\ file \in {None(EmptyArray)} \cup {Some(d) : d \in Documents}
    /\ mon = [pc |-> "add", new |-> EmptyHolder, pending |-> {},
              err |-> LoadFails(env.path, file, FALSE)]
    /\ holder = NewHolder(env, file)
    /\ Start0

\* the process starts in either mode, from any AUTH_TOKENS and any file; the
\* file is not changed afterwards
InitStart ==
    /\ \/ /\ env \in [path : {""},
                       tokens : {None(EmptyArray)} \cup {Some(d) : d \in LoadDocuments}]
          /\ file = None(EmptyArray)
       \/ /\ env \in [path : {TokensPath},
                       tokens : {None(EmptyArray), Some(DocA), Some(DocB)}]
          /\ file \in {None(EmptyArray)} \cup {Some(d) : d \in LoadDocuments}
    /\ mon = IF Len(env.path) # 0
             THEN [pc |-> "add", new |-> EmptyHolder, pending |-> {},
                   err |-> LoadFails(env.path, file, FALSE)]
             ELSE MonOff
    /\ holder = NewHolder(env, file)
    /\ Start0

(***************************************************************************)
(* The environment changes the file.                                       *)
(***************************************************************************)
FileMode == Len(env.path) # 0

Notify == IF watch THEN events + 1 ELSE events

\* the present file is rewritten in place
WriteFile(d) ==
    /\ FileMode /\ nchg < MaxFileChanges
    /\ file.present /\ file.v # d
    /\ file' = Some(d)
    /\ events' = Notify
    /\ nchg' = nchg + 1
    /\ UNCHANGED <<listen, env, holder, caches, req, mon, watch, nreq>>

\* a file is created where none was
CreateFile(d) ==
    /\ FileMode /\ nchg < MaxFileChanges
    /\ ~file.present
    /\ file' = Some(d)
    /\ nchg' = nchg + 1
    /\ UNCHANGED <<listen, env, holder, caches, req, mon, watch, events, nreq>>

\* the file is removed; the watch on it goes with it
RemoveFile ==
    /\ FileMode /\ nchg < MaxFileChanges
    /\ file.present
    /\ file' = None(EmptyArray)
    /\ events' = Notify
    /\ watch' = FALSE
    /\ nchg' = nchg + 1
    /\ UNCHANGED <<listen, env, holder, caches, req, mon, nreq>>

\* another file is renamed over the file; the watch on the old file goes with it
ReplaceFile(d) ==
    /\ FileMode /\ nchg < MaxFileChanges
    /\ file.present /\ file.v # d
    /\ file' = Some(d)
    /\ events' = Notify
    /\ watch' = FALSE
    /\ nchg' = nchg + 1
    /\ UNCHANGED <<listen, env, holder, caches, req, mon, nreq>>

(***************************************************************************)
(* monitor.                                                                *)
(***************************************************************************)
\* watcher.Add(rawTokensPath): the loop goes on when the file exists and
\* returns when it does not
MonitorAdd ==
    /\ mon.pc = "add"
    /\ IF file.present
       THEN /\ watch' = TRUE
            /\ mon' = [mon EXCEPT !.pc = "select"]
       ELSE /\ watch' = watch
            /\ mon' = [mon EXCEPT !.pc = "exit"]
    /\ UNCHANGED <<listen, env, file, holder, caches, req, events, nreq, nchg>>

\* case <-watcher.Events
MonitorEvent ==
    /\ mon.pc = "select"
    /\ events > 0
    /\ events' = events - 1
    /\ mon' = [mon EXCEPT !.pc = "load"]
    /\ UNCHANGED <<listen, env, file, holder, caches, req, watch, nreq, nchg>>

\* loadFile up to the assignments of makeHolder: the file is opened and read
\* and the five new values are built
MonitorLoad(readErr) ==
    /\ mon.pc = "load"
    /\ mon' = [pc |-> "assign",
               new |-> makeHolder(FileRawTokens(env.path, file, readErr)),
               pending |-> HolderFields,
               err |-> LoadFails(env.path, file, readErr)]
    /\ UNCHANGED <<listen, env, file, holder, caches, req, watch, events, nreq, nchg>>

\* one of the five assignments at the end of makeHolder; nothing orders the
\* assignments for the goroutines that read the holder
MonitorAssign(field) ==
    /\ mon.pc = "assign"
    /\ field \in mon.pending
    /\ holder' = [holder EXCEPT ![field] = mon.new[field]]
    /\ req' = [w \in Workers |->
                IF req[w].ph = "idle" THEN req[w] ELSE [req[w] EXCEPT !.dirty = TRUE]]
    /\ mon' = IF mon.pending = {field}
              THEN [pc |-> "add", new |-> EmptyHolder, pending |-> {}, err |-> mon.err]
              ELSE [mon EXCEPT !.pending = @ \ {field}]
    /\ UNCHANGED <<listen, env, file, caches, watch, events, nreq, nchg>>

(***************************************************************************)
(* The NoRoute closure of NewHandler.  A step holds at most one operation  *)
(* on a cache and at most one read of a field of the holder.               *)
(***************************************************************************)
Tab == "\t"

\* the key a match function uses for the request r
KeyOf(fn, r) ==
    CASE fn = "matchHost" -> r.domain
      [] fn = "matchNoAuthPath" -> r.domain \o Tab \o r.path
      [] fn = "matchBasicAuthPath" -> r.domain \o Tab \o r.path
      [] fn = "verifyBasicAuth" -> r.authHeader \o Tab \o r.domain \o Tab \o r.path
      [] fn = "matchBearerAuthPath" -> tokenRe(r.authHeader) \o Tab \o r.domain \o Tab \o r.path

\* the functions that range over a map; the others range over a slice
RangesOverMap(fn) == fn \in {"matchBasicAuthPath", "verifyBasicAuth"}

\* a variant of the closure: the no-auth paths are not read from the holder
ArgOfNoPaths(fn, r, h) ==
    CASE fn = "matchHost" -> GetHosts(h)
      [] fn = "matchBearerAuthPath" -> GetAllowedPaths(h, r.host, tokenRe(r.authHeader))
      [] OTHER -> << >>

\* the slice the closure reads from the holder for the call of fn
ArgOf(fn, r, h) ==
    CASE fn = "matchHost" -> GetHosts(h)
      [] fn = "matchNoAuthPath" -> GetNoAuthPaths(h, r.host)
      [] fn = "matchBearerAuthPath" -> GetAllowedPaths(h, r.host, tokenRe(r.authHeader))
      [] OTHER -> << >>

\* the map the closure reads from the holder for the call of fn
ConfOf(fn, r, h) == IF RangesOverMap(fn) THEN GetBasicAuthConf(h, r.host) ELSE EmptyMap

\* the orders in which a range loop can visit the keys of a map
Orders(S) ==
    {s \in [1..Cardinality(S) -> S] : \A i, j \in 1..Cardinality(S) : i # j => s[i] # s[j]}

\* a variant of the first value: matchHost starts from allowed
ZeroAllowed(fn) == IF fn = "matchHost" THEN [host |-> "", allowed |-> TRUE] ELSE FALSE

\* the value every match function adds first
ZeroOf(fn) == IF fn = "matchHost" THEN [host |-> "", allowed |-> FALSE] ELSE FALSE

\* the sequences of elements the loop of fn can visit
RestOf(fn, r) == IF RangesOverMap(fn) THEN Orders(DOMAIN r.conf) ELSE {r.arg}

\* the closure answers and returns
Answer(r, verdict) ==
    [r EXCEPT !.fn = "", !.ph = "done", !.verdict = verdict,
              !.arg = << >>, !.conf = EmptyMap, !.rest = << >>]

\* the closure goes on to call fn
Call(r, fn) ==
    [r EXCEPT !.fn = fn, !.ph = "contains", !.arg = << >>, !.conf = EmptyMap, !.rest = << >>]

\* a request arrives
Start(w, domain, path, authHeader) ==
    /\ req[w].ph = "idle"
    /\ \A v \in Workers : v < w => req[v].ph # "idle"
    /\ nreq < MaxRequests
    /\ nreq' = nreq + 1
    /\ req' = [req EXCEPT ![w] =
                [Call(Idle, "matchHost") EXCEPT !.domain = domain, !.path = path,
                                                !.authHeader = authHeader,
                                                !.after = {v \in Workers : req[v].ph = "done"}]]
    /\ UNCHANGED <<listen, env, file, holder, caches, mon, watch, events, nchg>>

\* the argument is read from the holder and the cache is asked for the key
Contains(w) ==
    LET r == req[w] IN
    /\ r.ph = "contains"
    /\ req' = [req EXCEPT ![w] =
                [r EXCEPT !.arg = ArgOf(r.fn, r, holder),
                          !.conf = ConfOf(r.fn, r, holder),
                          !.ph = IF CacheContains(caches[r.fn], KeyOf(r.fn, r))
                                 THEN "get" ELSE "addFalse"]]
    /\ UNCHANGED <<listen, env, file, holder, caches, mon, watch, events, nreq, nchg>>

\* verifyBasicAuth between Add(key, false) and its loop: "skip" when the header
\* is not a Basic header or is not base64, "panic" when userMatches is empty
\* (userMatches[0] is out of range), "loop" otherwise
BasicCredentials(authHeader) ==
    IF Len(authHeader) > 0 /\ basicRe(authHeader) # Null
    THEN LET d == DecodeString(basicRe(authHeader)) IN
         IF ~d.err
         THEN LET userMatches == basicUserRe(d.val) IN
              IF Len(userMatches) = 0 THEN [to |-> "panic", user |-> "", password |-> ""]
              ELSE [to |-> "loop", user |-> userMatches[1][2], password |-> userMatches[1][3]]
         ELSE [to |-> "skip", user |-> "", password |-> ""]
    ELSE [to |-> "skip", user |-> "", password |-> ""]

\* Add(key, false), up to the first iteration of the loop
AddFalse(w) ==
    LET r == req[w]
        to == IF r.fn = "verifyBasicAuth" THEN BasicCredentials(r.authHeader).to ELSE "loop"
    IN
    /\ r.ph = "addFalse"
    /\ caches' = [caches EXCEPT ![r.fn] = CacheAdd(@, KeyOf(r.fn, r), ZeroOf(r.fn))]
    /\ \E rest \in RestOf(r.fn, r) :
          req' = [req EXCEPT ![w] =
                   IF to = "panic" THEN Answer(r, Fault)
                   ELSE IF to = "skip" \/ Len(rest) = 0 THEN [r EXCEPT !.ph = "get"]
                   ELSE [r EXCEPT !.ph = "loop", !.rest = rest]]
    /\ UNCHANGED <<listen, env, file, holder, mon, watch, events, nreq, nchg>>

\* the loop of fn finds a match at the element e
Matches(fn, r, e) ==
    CASE fn = "matchHost" -> MatchString(e, r.domain)
      [] fn = "matchNoAuthPath" -> MatchString(e, r.path)
      [] fn = "matchBasicAuthPath" -> MatchString(e, r.path)
      [] fn = "verifyBasicAuth" ->
            /\ MatchString(e, r.path)
            /\ BasicCredentials(r.authHeader).user \in DOMAIN r.conf[e]
            /\ r.conf[e][BasicCredentials(r.authHeader).user]
                  = BasicCredentials(r.authHeader).password
      [] fn = "matchBearerAuthPath" -> MatchString(e, r.path)

\* the value the loop of fn adds at a match
TrueOf(fn, e) == IF fn = "matchHost" THEN [host |-> e, allowed |-> TRUE] ELSE TRUE

\* one iteration of the loop of a match function, at the element e
Iterate(w, e) ==
    LET r == req[w]
        rest == Tail(r.rest)
    IN
    IF ~Compiles(e)
    THEN \* regexp.MustCompile panics
         /\ req' = [req EXCEPT ![w] = Answer(r, Fault)]
         /\ caches' = caches
    ELSE /\ caches' = IF Matches(r.fn, r, e)
                      THEN [caches EXCEPT ![r.fn] =
                                CacheAdd(@, KeyOf(r.fn, r), TrueOf(r.fn, e))]
                      ELSE caches
         /\ req' = [req EXCEPT ![w] =
                     IF Len(rest) = 0 THEN [r EXCEPT !.ph = "get", !.rest = << >>]
                     ELSE [r EXCEPT !.rest = rest]]

Loop(w) ==
    /\ req[w].ph = "loop"
    /\ Iterate(w, Head(req[w].rest))
    /\ UNCHANGED <<listen, env, file, holder, mon, watch, events, nreq, nchg>>

\* what the closure does with the result v of the match function fn
Continue(r, v) ==
    CASE r.fn = "matchHost" ->
            IF v.allowed THEN [Call(r, "matchNoAuthPath") EXCEPT !.host = v.host]
            ELSE Answer(r, "DomainDenied")
      [] r.fn = "matchNoAuthPath" ->
            IF v THEN Answer(r, "NoAuthGranted") ELSE Call(r, "matchBasicAuthPath")
      [] r.fn = "matchBasicAuthPath" ->
            IF v THEN Call(r, "verifyBasicAuth")
            ELSE IF Len(r.authHeader) = 0 THEN Answer(r, "BearerHeaderMissing")
            ELSE IF tokenRe(r.authHeader) = Null THEN Answer(r, "BearerTokenUnknown")
            ELSE [r EXCEPT !.fn = "HasToken", !.ph = "read",
                           !.arg = << >>, !.conf = EmptyMap, !.rest = << >>]
      [] r.fn = "verifyBasicAuth" ->
            IF v THEN Answer(r, "BasicAuthGranted") ELSE Answer(r, "BasicAuthRequired")
      [] r.fn = "matchBearerAuthPath" ->
            IF v THEN Answer(r, "BearerPathGranted") ELSE Answer(r, "BearerPathDenied")

\* Get(key) and the use the closure makes of the result
Get(w) ==
    LET r == req[w]
        key == KeyOf(r.fn, r)
    IN
    /\ r.ph = "get"
    /\ caches' = [caches EXCEPT ![r.fn] = CacheGet(@, key)]
    /\ req' = [req EXCEPT ![w] = Continue(r, CacheValue(caches[r.fn], key, ZeroOf(r.fn)))]
    /\ UNCHANGED <<listen, env, file, holder, mon, watch, events, nreq, nchg>>

\* holder.HasToken(host, matches[0][1])
CheckToken(w) ==
    LET r == req[w] IN
    /\ r.ph = "read"
    /\ req' = [req EXCEPT ![w] =
                IF HasToken(holder, r.host, tokenRe(r.authHeader))
                THEN Call(r, "matchBearerAuthPath")
                ELSE Answer(r, "BearerTokenUnknown")]
    /\ UNCHANGED <<listen, env, file, holder, caches, mon, watch, events, nreq, nchg>>

\* the response is written and the goroutine is free for another request
Finish(w) ==
    /\ req[w].ph = "done"
    /\ req' = [v \in Workers |->
                IF v = w THEN Idle ELSE [req[v] EXCEPT !.after = @ \ {w}]]
    /\ UNCHANGED <<listen, env, file, holder, caches, mon, watch, events, nreq, nchg>>

\* the steps of the requests in progress
Handle ==
    \/ \E w \in Workers : Contains(w)
    \/ \E w \in Workers : AddFalse(w)
    \/ \E w \in Workers : Loop(w)
    \/ \E w \in Workers : Get(w)
    \/ \E w \in Workers : CheckToken(w)
    \/ \E w \in Workers : Finish(w)

\* a request arrives while no other request is in progress
StartAlone(domain, path, authHeader) ==
    /\ \A w \in Workers : req[w].ph = "idle"
    /\ Start(1, domain, path, authHeader)

Environment ==
    \/ \E d \in Documents : WriteFile(d)
    \/ \E d \in Documents : CreateFile(d)
    \/ RemoveFile
    \/ \E d \in Documents : ReplaceFile(d)

Monitor ==
    \/ MonitorAdd
    \/ MonitorEvent
    \/ \E readErr \in BOOLEAN : MonitorLoad(readErr)
    \/ \E field \in HolderFields : MonitorAssign(field)

\* file-backed mode; the requests come one at a time, each of them concurrent
\* with the monitor and with the changes of the file
Next ==
    \/ Environment
    \/ Monitor
    \/ \E domain \in Domains, path \in Paths, authHeader \in AuthHeaders :
          StartAlone(domain, path, authHeader)
    \/ Handle

Spec == InitFile /\ [][Next]_vars

\* static mode; up to NumWorkers requests are in progress at a time
NextStatic ==
    \/ \E w \in Workers, domain \in Domains, path \in Paths, authHeader \in StaticHeaders :
          Start(w, domain, path, authHeader)
    \/ Handle

SpecStatic == InitStatic /\ [][NextStatic]_vars

\* a start from any configuration; the file does not change and the requests
\* come one at a time
NextStart ==
    \/ MonitorAdd
    \/ \E domain \in Domains, path \in Paths, authHeader \in StartHeaders :
          StartAlone(domain, path, authHeader)
    \/ Handle

SpecStart == InitStart /\ [][NextStart]_vars

(***************************************************************************)
(* What a document prescribes for a request.                               *)
(***************************************************************************)
\* the positions of the host patterns of h that match the domain
MatchingHosts(h, domain) ==
    {i \in 1..Len(GetHosts(h)) : MatchString(GetHosts(h)[i], domain)}

\* the path matches a no-auth pattern of the host
NoAuthPath(h, host, path) ==
    \E i \in 1..Len(GetNoAuthPaths(h, host)) : MatchString(GetNoAuthPaths(h, host)[i], path)

\* the path matches a basic-auth path key of the host
BasicAuthPath(h, host, path) ==
    \E p \in DOMAIN GetBasicAuthConf(h, host) : MatchString(p, path)

\* the closure with empty caches and no other goroutine, once the host is known
RulesOf(h, host, path, authHeader) ==
    LET conf == GetBasicAuthConf(h, host)
        cred == BasicCredentials(authHeader)
        token == tokenRe(authHeader)
    IN
    IF NoAuthPath(h, host, path) THEN "NoAuthGranted"
    ELSE IF BasicAuthPath(h, host, path)
    THEN IF cred.to = "panic" THEN Fault
         ELSE IF /\ cred.to = "loop"
                 /\ \E p \in DOMAIN conf :
                       /\ MatchString(p, path)
                       /\ cred.user \in DOMAIN conf[p]
                       /\ conf[p][cred.user] = cred.password
         THEN "BasicAuthGranted"
         ELSE "BasicAuthRequired"
    ELSE IF Len(authHeader) = 0 THEN "BearerHeaderMissing"
    ELSE IF token = Null THEN "BearerTokenUnknown"
    ELSE IF ~HasToken(h, host, token) THEN "BearerTokenUnknown"
    ELSE IF \E i \in 1..Len(GetAllowedPaths(h, host, token)) :
                MatchString(GetAllowedPaths(h, host, token)[i], path)
    THEN "BearerPathGranted"
    ELSE "BearerPathDenied"

\* the outcomes the holder h prescribes, whichever of the matching hosts is
\* taken for the matched host
Decisions(h, domain, path, authHeader) ==
    IF MatchingHosts(h, domain) = {} THEN {"DomainDenied"}
    ELSE {RulesOf(h, GetHosts(h)[i], path, authHeader) : i \in MatchingHosts(h, domain)}

\* the holders makeHolder can build
Policies == {EmptyHolder} \cup {makeHolder(d) : d \in Documents}

\* the request of the goroutine w is answered and no field of the holder was
\* written since it arrived
Settled(w) == req[w].ph = "done" /\ ~req[w].dirty /\ mon.pc # "assign"

BearerVerdicts ==
    {"BearerHeaderMissing", "BearerTokenUnknown", "BearerPathDenied", "BearerPathGranted"}

(***************************************************************************)
(* C1                                                                      *)
(***************************************************************************)
\* C1: a request whose domain matches no host pattern of the policy in force is
\* answered DomainDenied, whatever requests and reloads happened before
C1_DomainDenied ==
    \A w \in Workers :
        (Settled(w) /\ MatchingHosts(holder, req[w].domain) = {})
            => req[w].verdict = "DomainDenied"

(***************************************************************************)
(* C2                                                                      *)
(***************************************************************************)
\* C2: a request on a matched host whose path matches a no-auth pattern of that
\* host is answered NoAuthGranted, whatever its Authorization header is
C2_NoAuthGranted ==
    \A w \in Workers :
        (/\ Settled(w)
         /\ MatchingHosts(holder, req[w].domain) # {}
         /\ \A i \in MatchingHosts(holder, req[w].domain) :
               NoAuthPath(holder, GetHosts(holder)[i], req[w].path))
            => req[w].verdict = "NoAuthGranted"

(***************************************************************************)
(* C3                                                                      *)
(***************************************************************************)
\* C3: a request whose path matches no no-auth pattern and matches a basic-auth
\* path key of the matched host is never answered by one of the four bearer
\* verdicts
C3_BasicBeforeBearer ==
    \A w \in Workers :
        (/\ Settled(w)
         /\ MatchingHosts(holder, req[w].domain) # {}
         /\ \A i \in MatchingHosts(holder, req[w].domain) :
               /\ ~NoAuthPath(holder, GetHosts(holder)[i], req[w].path)
               /\ BasicAuthPath(holder, GetHosts(holder)[i], req[w].path))
            => req[w].verdict \notin BearerVerdicts

(***************************************************************************)
(* C4                                                                      *)
(***************************************************************************)
\* C4: when several host patterns match the domain, the rules applied to the
\* request are those of the first matching host entry in document order
C4_FirstMatchingHost ==
    \A w \in Workers :
        (/\ Settled(w)
         /\ req[w].host # ""
         /\ MatchingHosts(holder, req[w].domain) # {})
            => LET first == CHOOSE i \in MatchingHosts(holder, req[w].domain) :
                                \A j \in MatchingHosts(holder, req[w].domain) : i <= j
               IN  req[w].host = GetHosts(holder)[first]

(***************************************************************************)
(* C5                                                                      *)
(***************************************************************************)
\* C5: every request ends in exactly one of the eight verdicts; the evaluation
\* never ends in a fault
C5_EightVerdicts ==
    \A w \in Workers : req[w].ph = "done" => req[w].verdict \in Verdicts

(***************************************************************************)
(* C6                                                                      *)
(***************************************************************************)
\* C6: while the policy does not change, evaluating the same domain, path and
\* header a second time gives the same verdict as the first time
C6_Idempotent ==
    \A v, w \in Workers :
        (/\ req[v].ph = "done" /\ req[w].ph = "done"
         /\ v \in req[w].after
         /\ ~req[v].dirty /\ ~req[w].dirty
         /\ req[v].domain = req[w].domain
         /\ req[v].path = req[w].path
         /\ req[v].authHeader = req[w].authHeader)
            => req[v].verdict = req[w].verdict

(***************************************************************************)
(* C7                                                                      *)
(***************************************************************************)
\* C7: once the file holds a new valid document and the reload it triggers has
\* completed, every later request is decided according to the new document,
\* also for a domain, path and header evaluated before the change
C7_ReloadApplied ==
    \A w \in Workers :
        (/\ Settled(w)
         /\ nchg > 0 /\ events = 0 /\ mon.pc \in {"add", "select"}
         /\ file.present /\ ~mon.err /\ holder = makeHolder(file.v)
         /\ Fault \notin Decisions(holder, req[w].domain, req[w].path, req[w].authHeader))
            => req[w].verdict
                  \in Decisions(holder, req[w].domain, req[w].path, req[w].authHeader)

(***************************************************************************)
(* C8                                                                      *)
(***************************************************************************)
\* C8: a reload that fails (the file cannot be opened or read, or its content
\* is not a valid document) leaves every field of the holder as it was
C8_FailedReloadKeepsPolicy ==
    [][(mon.pc = "assign" /\ mon.err) => holder' = holder]_vars

(***************************************************************************)
(* C9                                                                      *)
(***************************************************************************)
\* C9: at every instant the five fields of the holder come from one parsed
\* document; no partially replaced policy is ever in force
C9_WholePolicy == holder \in Policies

(***************************************************************************)
(* C10                                                                     *)
(***************************************************************************)
\* C10: in file-backed mode the reload loop stays alive for the life of the
\* process, also after the file was missing, removed or replaced
C10_MonitorAlive == FileMode => mon.pc # "exit"

(***************************************************************************)
(* C11                                                                     *)
(***************************************************************************)
\* the domain matches a host pattern of h, and for every matching host the path
\* matches neither a no-auth pattern nor a basic-auth path key
BearerGuarded(h, domain, path) ==
    /\ MatchingHosts(h, domain) # {}
    /\ \A i \in MatchingHosts(h, domain) :
          /\ ~NoAuthPath(h, GetHosts(h)[i], path)
          /\ ~BasicAuthPath(h, GetHosts(h)[i], path)

\* C11: on a matched host, for a path that matches neither a no-auth pattern nor
\* a basic-auth path key, an empty Authorization header gives BearerHeaderMissing,
\* and a header that is not a Bearer header or whose token is not configured for
\* the host gives BearerTokenUnknown
C11_BearerHeader ==
    \A w \in Workers :
        (Settled(w) /\ BearerGuarded(holder, req[w].domain, req[w].path))
            => /\ Len(req[w].authHeader) = 0 => req[w].verdict = "BearerHeaderMissing"
               /\ (/\ Len(req[w].authHeader) # 0
                   /\ \/ tokenRe(req[w].authHeader) = Null
                      \/ \A i \in MatchingHosts(holder, req[w].domain) :
                            ~HasToken(holder, GetHosts(holder)[i], tokenRe(req[w].authHeader)))
                      => req[w].verdict = "BearerTokenUnknown"

(***************************************************************************)
(* C12                                                                     *)
(***************************************************************************)
\* the request of w went through the bearer branch with a configured token: the
\* closure called matchBearerAuthPath and answered from its result
BearerPathDecided(w) ==
    /\ Settled(w)
    /\ req[w].verdict \in {"BearerPathGranted", "BearerPathDenied"}

\* the path matches an allowed-path pattern of the token for the host
AllowedPath(h, host, token, path) ==
    \E i \in 1..Len(GetAllowedPaths(h, host, token)) :
        MatchString(GetAllowedPaths(h, host, token)[i], path)

\* C12: a request that reaches the bearer branch with a token configured for the
\* matched host is answered BearerPathGranted if and only if the path matches an
\* allowed-path pattern of that token, and BearerPathDenied otherwise
C12_BearerPath ==
    \A w \in Workers :
        BearerPathDecided(w)
            => (req[w].verdict = "BearerPathGranted"
                  <=> AllowedPath(holder, req[w].host, tokenRe(req[w].authHeader), req[w].path))

(***************************************************************************)
(* C13                                                                     *)
(***************************************************************************)
\* the domain matches a host pattern of h, and for every matching host the path
\* matches no no-auth pattern and matches a basic-auth path key
BasicGuarded(h, domain, path) ==
    /\ MatchingHosts(h, domain) # {}
    /\ \A i \in MatchingHosts(h, domain) :
          /\ ~NoAuthPath(h, GetHosts(h)[i], path)
          /\ BasicAuthPath(h, GetHosts(h)[i], path)

\* the header is a well-formed Basic header and, under a basic-auth path key of
\* the host that matches the path, its user is listed with its password
BasicGrant(h, host, path, authHeader) ==
    LET conf == GetBasicAuthConf(h, host)
        cred == BasicCredentials(authHeader)
    IN  /\ cred.to = "loop"
        /\ \E p \in DOMAIN conf :
              /\ MatchString(p, path)
              /\ cred.user \in DOMAIN conf[p]
              /\ conf[p][cred.user] = cred.password

\* C13: on a basic-auth-guarded path the verdict is BasicAuthGranted when the
\* header is a well-formed Basic header whose user is listed with its password
\* under a matching path key, and BasicAuthRequired in every other case
C13_BasicVerdict ==
    \A w \in Workers :
        (Settled(w) /\ BasicGuarded(holder, req[w].domain, req[w].path))
            => /\ (\A i \in MatchingHosts(holder, req[w].domain) :
                      BasicGrant(holder, GetHosts(holder)[i], req[w].path, req[w].authHeader))
                      => req[w].verdict = "BasicAuthGranted"
               /\ (\A i \in MatchingHosts(holder, req[w].domain) :
                      ~BasicGrant(holder, GetHosts(holder)[i], req[w].path, req[w].authHeader))
                      => req[w].verdict = "BasicAuthRequired"

(***************************************************************************)
(* C14                                                                     *)
(***************************************************************************)
\* the header carries a user of the host with the password of that user
ValidUser(h, host, authHeader) ==
    LET conf == GetBasicAuthConf(h, host)
        cred == BasicCredentials(authHeader)
    IN  /\ cred.to = "loop"
        /\ \E p \in DOMAIN conf :
              /\ cred.user \in DOMAIN conf[p]
              /\ conf[p][cred.user] = cred.password

\* C14: a request with a valid username and password of the matched host, for a
\* path outside the no-auth paths that is not among the allowed paths of that
\* user, is answered 403
C14_ValidUserOtherPath ==
    \A w \in Workers :
        (/\ Settled(w)
         /\ MatchingHosts(holder, req[w].domain) # {}
         /\ \A i \in MatchingHosts(holder, req[w].domain) :
               /\ ValidUser(holder, GetHosts(holder)[i], req[w].authHeader)
               /\ ~NoAuthPath(holder, GetHosts(holder)[i], req[w].path)
               /\ ~BasicGrant(holder, GetHosts(holder)[i], req[w].path, req[w].authHeader))
            => StatusOf(req[w].verdict) = "403"

(***************************************************************************)
(* C15                                                                     *)
(***************************************************************************)
\* the bearer_tokens items of the document d that declare the token for the host
Declared(d, host, token) ==
    {b \in UNION {{Unmarshal(d).list[i].BearerTokens[j] :
                        j \in 1..Len(Unmarshal(d).list[i].BearerTokens)} :
                    i \in {n \in 1..Len(Unmarshal(d).list) : Unmarshal(d).list[n].Host = host}} :
        b.Token = token}

\* an item whose allowed_paths has a pattern that compiles
Usable(b) == \E k \in 1..Len(b.RawAllowedPaths) : Compiles(b.RawAllowedPaths[k])

\* the document declares the token for the host, and only with allowed_paths
\* that are empty or hold no pattern that compiles
WithoutPaths(d, host, token) ==
    /\ Declared(d, host, token) # {}
    /\ \A b \in Declared(d, host, token) : ~Usable(b)

\* C15: a bearer token whose allowed_paths is empty or holds only patterns that
\* do not compile is not part of the policy (HasToken false, absent from
\* GetTokens), and a request presenting it on a bearer-guarded path is answered
\* BearerTokenUnknown
C15_TokenWithoutPaths ==
    ~FileMode =>
        /\ \A host \in {"^api[.].+$", ".+"}, token \in {"T1", "T2", "T3"} :
              WithoutPaths(EnvRawTokens(env), host, token)
                 => /\ ~HasToken(holder, host, token)
                    /\ \A n \in 1..Len(GetTokens(holder, host)) : GetTokens(holder, host)[n] # token
        /\ \A w \in Workers :
              (/\ Settled(w)
               /\ BearerGuarded(holder, req[w].domain, req[w].path)
               /\ tokenRe(req[w].authHeader) # Null
               /\ \E i \in MatchingHosts(holder, req[w].domain) :
                     WithoutPaths(EnvRawTokens(env), GetHosts(holder)[i], tokenRe(req[w].authHeader))
               /\ \A i \in MatchingHosts(holder, req[w].domain) :
                     \A b \in Declared(EnvRawTokens(env), GetHosts(holder)[i],
                                       tokenRe(req[w].authHeader)) : ~Usable(b))
                  => req[w].verdict = "BearerTokenUnknown"

(***************************************************************************)
(* C16                                                                     *)
(***************************************************************************)
\* the monitor waits and has nothing left to load
MonitorQuiet == mon.pc \in {"add", "select", "exit"} /\ events = 0

\* C16: a document with a structural violation is rejected as a whole on load:
\* the policy loaded from it has no host, and every request is DomainDenied
C16_InvalidDocumentDeniesAll ==
    \A w \in Workers :
        (/\ Settled(w)
         /\ FileMode /\ file.present /\ Unmarshal(file.v).err
         /\ MonitorQuiet /\ mon.err
         /\ holder = makeHolder(file.v))
            => /\ GetHosts(holder) = << >>
               /\ req[w].verdict = "DomainDenied"

(***************************************************************************)
(* C17                                                                     *)
(***************************************************************************)
\* the text the policy is loaded from when the process starts
StartText ==
    IF FileMode THEN FileRawTokens(env.path, file, FALSE) ELSE EnvRawTokens(env)

\* C17: for every bearer token entry of the loaded document, the allowed paths
\* of the token are the patterns of the entry that compile, in document order;
\* the token is configured exactly when one pattern remains; every host of the
\* document is in the policy
C17_CompilingPathsKept ==
    LET list == Unmarshal(StartText).list IN
    /\ GetHosts(holder) = [i \in 1..Len(list) |-> list[i].Host]
    /\ \A i \in 1..Len(list) : \A j \in 1..Len(list[i].BearerTokens) :
          LET b == list[i].BearerTokens[j]
              host == list[i].Host
          IN  Cardinality(Declared(StartText, host, b.Token)) = 1
                 => /\ GetAllowedPaths(holder, host, b.Token)
                          = SelectSeq(b.RawAllowedPaths, LAMBDA p : Compiles(p))
                    /\ HasToken(holder, host, b.Token) <=> Usable(b)
                    /\ (\E n \in 1..Len(GetTokens(holder, host)) :
                            GetTokens(holder, host)[n] = b.Token) <=> Usable(b)

\* the policy was loaded from DocC: T1 keeps the one pattern that compiles, T2
\* and T3 are not configured, and the second host keeps its token
C17_Witness ==
    /\ StartText = DocC
    /\ GetAllowedPaths(holder, "^api[.].+$", "T1") = <<"^/a/.+$">>
    /\ ~HasToken(holder, "^api[.].+$", "T2")
    /\ ~HasToken(holder, "^api[.].+$", "T3")
    /\ GetAllowedPaths(holder, ".+", "T1") = <<"^/m/.+$">>
    /\ \E w \in Workers : req[w].ph = "done"

(***************************************************************************)
(* C18                                                                     *)
(***************************************************************************)
\* the keys of the map m that compile
CompilingKeys(m) == {p \in DOMAIN m : Compiles(p)}

\* the holder h without the host patterns, the no-auth path patterns and the
\* basic-auth path keys that do not compile
ValidPatterns(h) ==
    [h EXCEPT
       !.hosts = SelectSeq(@, LAMBDA p : Compiles(p)),
       !.noAuthPaths = [host \in DOMAIN @ |-> SelectSeq(@[host], LAMBDA p : Compiles(p))],
       !.basicAuthPaths = [host \in DOMAIN @ |-> [p \in CompilingKeys(@[host]) |-> @[host][p]]]]

\* C18: a host pattern, a no-auth path pattern or a basic-auth path key that is
\* not a valid regular expression only removes that entry: every request is
\* decided, without a fault, by the remaining patterns of the document
C18_InvalidPatternDropped ==
    \A w \in Workers :
        Settled(w)
            => req[w].verdict
                  \in Decisions(ValidPatterns(holder), req[w].domain, req[w].path,
                                req[w].authHeader)

(***************************************************************************)
(* C19                                                                     *)
(***************************************************************************)
\* AUTH_TOKENS is absent, empty or an empty array in static mode; the file is
\* missing, empty or an empty array in file-backed mode
EmptyConfiguration ==
    IF FileMode
    THEN ~file.present \/ file.v \in {EmptyText, EmptyArray}
    ELSE ~env.tokens.present \/ env.tokens.v \in {EmptyText, EmptyArray}

\* C19: when the initial configuration is absent, empty, a missing file or an
\* empty array, the policy has no host, no token, no basic-auth rule and no
\* no-auth path, and every request is answered 403
C19_EmptyConfigurationDeniesAll ==
    EmptyConfiguration
        => /\ GetHosts(holder) = << >>
           /\ DOMAIN holder.bearerTokenAllowedPaths = {}
           /\ DOMAIN holder.bearerTokens = {}
           /\ DOMAIN holder.basicAuthPaths = {}
           /\ DOMAIN holder.noAuthPaths = {}
           /\ \A w \in Workers : req[w].ph = "done" => StatusOf(req[w].verdict) = "403"

\* the file named by AUTH_TOKENS_PATH does not exist, and a request with a
\* bearer token was answered DomainDenied
C19_Witness ==
    /\ FileMode /\ ~file.present
    /\ \E w \in Workers :
          /\ req[w].ph = "done"
          /\ req[w].authHeader = "Bearer T1"
          /\ req[w].verdict = "DomainDenied"

(***************************************************************************)
(* C20                                                                     *)
(***************************************************************************)
\* C20: with AUTH_TOKENS_PATH set the policy is built from the content of the
\* file only, whatever AUTH_TOKENS is; with AUTH_TOKENS_PATH empty it is built
\* from AUTH_TOKENS only
C20_OneSource ==
    /\ Len(env.path) # 0
          => holder = makeHolder(IF file.present THEN file.v ELSE EmptyArray)
    /\ Len(env.path) = 0
          => holder = makeHolder(IF env.tokens.present /\ ~env.tokens.v.empty
                                 THEN env.tokens.v ELSE EmptyArray)

\* both are set and differ: the policy is that of the file
C20_Witness ==
    /\ Len(env.path) # 0
    /\ env.tokens = Some(DocA) /\ file = Some(DocB)
    /\ holder = makeHolder(DocB) /\ holder # makeHolder(DocA)
    /\ \E w \in Workers : req[w].ph = "done"

(***************************************************************************)
(* C21                                                                     *)
(***************************************************************************)
\* a variant of NewHolder: the monitor is started in both modes
MonitorAlways(e, f) ==
    [pc |-> "add", new |-> EmptyHolder, pending |-> {}, err |-> LoadFails(e.path, f, FALSE)]

\* the monitor goroutine when NewHolder returns: started after loadFile when
\* AUTH_TOKENS_PATH is set, not started after loadEnv
MonitorOf(e, f) ==
    IF Len(e.path) # 0
    THEN [pc |-> "add", new |-> EmptyHolder, pending |-> {}, err |-> LoadFails(e.path, f, FALSE)]
    ELSE MonOff

\* the process starts in static mode from AUTH_TOKENS, or in file-backed mode
\* from the file
InitModes ==
    /\ \/ /\ env \in [path : {""}, tokens : {None(EmptyArray)} \cup {Some(d) : d \in Documents}]
          /\ file = None(EmptyArray)
       \/ /\ env = [path |-> TokensPath, tokens |-> None(EmptyArray)]
          /\ file \in {None(EmptyArray), Some(DocA)}
    /\ mon = MonitorOf(env, file)
    /\ holder = NewHolder(env, file)
    /\ Start0

\* both modes, with the changes of the file, the monitor and the requests
SpecModes == InitModes /\ [][Next]_vars

\* C21: in static mode the monitor is never started, and no step changes a field
\* of the holder after NewHolder returned
C21_StaticReadOnce ==
    [][~FileMode => (mon = MonOff /\ mon' = MonOff /\ holder' = holder)]_vars

\* static mode: requests were answered and the holder is still the one loadEnv
\* built from AUTH_TOKENS
C21_Witness ==
    /\ ~FileMode
    /\ env.tokens = Some(DocB)
    /\ nreq = MaxRequests
    /\ \E w \in Workers : req[w].ph = "done" /\ req[w].verdict = "NoAuthGranted"
    /\ holder = makeHolder(DocB)
    /\ mon = MonOff

(***************************************************************************)
(* C22                                                                     *)
(***************************************************************************)
\* the token is a key of bearerTokenAllowedPaths[host]
TokenUnder(h, host, token) ==
    /\ host \in DOMAIN h.bearerTokenAllowedPaths
    /\ token \in DOMAIN h.bearerTokenAllowedPaths[host]

\* the host patterns of h other than host
OtherHosts(h, host) == {GetHosts(h)[i] : i \in 1..Len(GetHosts(h))} \ {host}

\* C22: for a request whose domain matches one host entry B only, a bearer token
\* configured only under another host entry is not a token of the request (its
\* paths are never looked at), credentials that grant only under another host
\* entry do not grant, and a path exempt only under another host entry is not
\* exempt
C22_HostScoped ==
    \A w \in Workers :
        (Settled(w) /\ Cardinality(MatchingHosts(holder, req[w].domain)) = 1)
            => LET B == GetHosts(holder)[CHOOSE i \in MatchingHosts(holder, req[w].domain) : TRUE]
                   token == tokenRe(req[w].authHeader)
               IN  /\ (/\ token # Null
                       /\ \E A \in OtherHosts(holder, B) : TokenUnder(holder, A, token)
                       /\ ~TokenUnder(holder, B, token))
                          => req[w].verdict \notin {"BearerPathGranted", "BearerPathDenied"}
                   /\ (/\ \E A \in OtherHosts(holder, B) :
                             BasicGrant(holder, A, req[w].path, req[w].authHeader)
                       /\ ~BasicGrant(holder, B, req[w].path, req[w].authHeader))
                          => req[w].verdict # "BasicAuthGranted"
                   /\ (/\ \E A \in OtherHosts(holder, B) : NoAuthPath(holder, A, req[w].path)
                       /\ ~NoAuthPath(holder, B, req[w].path))
                          => req[w].verdict # "NoAuthGranted"

\* DocD is loaded; on web.x.com, which only the second host entry matches, the
\* token T1 of the first entry is unknown and its no-auth path /a/ asks for a
\* header
C22_Witness ==
    /\ env.tokens = Some(DocD)
    /\ \E v, w \in Workers :
          /\ req[v].ph = "done" /\ req[w].ph = "done"
          /\ req[v].domain = "web.x.com" /\ req[w].domain = "web.x.com"
          /\ req[v].path = "/a/1" /\ req[w].path = "/a/1"
          /\ req[v].authHeader = "Bearer T1" /\ req[v].verdict = "BearerTokenUnknown"
          /\ req[w].authHeader = "" /\ req[w].verdict = "BearerHeaderMissing"

(***************************************************************************)
(* C23                                                                     *)
(***************************************************************************)
\* the basic_auths items of the entries of the document d for the host
BasicEntries(d, host) ==
    UNION {{Unmarshal(d).list[i].BasicAuths[j] : j \in 1..Len(Unmarshal(d).list[i].BasicAuths)} :
              i \in {n \in 1..Len(Unmarshal(d).list) : Unmarshal(d).list[n].Host = host}}

\* the item lists the path pattern p in its allowed_paths
Lists(a, p) == \E k \in 1..Len(a.RawAllowedPaths) : a.RawAllowedPaths[k] = p

\* C23: after a load, for every host, the user u is defined under the path
\* pattern p exactly when a basic_auths item of the host has the username u and
\* lists p, and the value is the password of such an item; an item without
\* allowed path adds nothing, and no path pattern is left without user
C23_BasicAuthsFolded ==
    LET list == Unmarshal(StartText).list IN
    /\ DOMAIN holder.basicAuthPaths \subseteq {list[i].Host : i \in 1..Len(list)}
    /\ \A i \in 1..Len(list) :
          LET host == list[i].Host
              conf == GetBasicAuthConf(holder, host)
              entries == BasicEntries(StartText, host)
          IN  /\ \A p \in DOMAIN conf :
                    /\ DOMAIN conf[p] # {}
                    /\ \A u \in DOMAIN conf[p] :
                          \E a \in entries :
                              a.Username = u /\ Lists(a, p) /\ conf[p][u] = a.Password
              /\ \A a \in entries : \A k \in 1..Len(a.RawAllowedPaths) :
                    /\ a.RawAllowedPaths[k] \in DOMAIN conf
                    /\ a.Username \in DOMAIN conf[a.RawAllowedPaths[k]]

\* the policy was loaded from DocE: u and v share the pattern of /m/, u is also
\* under the pattern of /a/, x is nowhere, and u was granted /m/x
C23_Witness ==
    /\ StartText = DocE
    /\ GetBasicAuthConf(holder, "^api[.].+$")
          = [p \in {"^/a/.+$", "^/m/.+$"} |->
                IF p = "^/a/.+$" THEN [n \in {"u"} |-> "pw"]
                ELSE [n \in {"u", "v"} |-> IF n = "u" THEN "pw" ELSE "pw2"]]
    /\ \E w \in Workers :
          /\ req[w].ph = "done"
          /\ req[w].path = "/m/x"
          /\ req[w].authHeader = "Basic dTpwdw=="
          /\ req[w].verdict = "BasicAuthGranted"

(***************************************************************************)
(* C24                                                                     *)
(***************************************************************************)
Methods == {"GET", "POST", "HEAD"}

\* a variant of the responses: only GET is answered, another method gets 405
ResponseByMethod(verdict, method) ==
    IF method = "GET"
    THEN [status |-> StatusOf(verdict), scheme |-> "", realm |-> "", error |-> ""]
    ELSE [status |-> "405", scheme |-> "", realm |-> "", error |-> ""]

\* the status and the WWW-Authenticate header (scheme, realm, error) written by
\* the response function the closure calls for the verdict: domainNotAllowed,
\* statusOK, basicAuthRequired, authHeaderMissing, tokenMissmatch,
\* pathNotAllowed; the recovery middleware after a panic
ResponseOf(verdict, method) ==
    CASE verdict = "DomainDenied" ->
            [status |-> "403", scheme |-> "", realm |-> "", error |-> ""]
      [] verdict \in {"NoAuthGranted", "BasicAuthGranted", "BearerPathGranted"} ->
            [status |-> "200", scheme |-> "", realm |-> "", error |-> ""]
      [] verdict = "BasicAuthRequired" ->
            [status |-> "401", scheme |-> "Basic",
             realm |-> "basic authentication required", error |-> ""]
      [] verdict = "BearerHeaderMissing" ->
            [status |-> "401", scheme |-> "Bearer", realm |-> "token_required", error |-> ""]
      [] verdict = "BearerTokenUnknown" ->
            [status |-> "401", scheme |-> "Bearer", realm |-> "token_required",
             error |-> "invalid_token"]
      [] verdict = "BearerPathDenied" ->
            [status |-> "403", scheme |-> "Bearer", realm |-> "token_required",
             error |-> "not_allowed"]
      [] OTHER -> [status |-> "500", scheme |-> "", realm |-> "", error |-> ""]

\* a request with the given method arrives while no other request is in progress
StartMethod(method, domain, path, authHeader) ==
    /\ \A w \in Workers : req[w].ph = "idle"
    /\ nreq < MaxRequests
    /\ nreq' = nreq + 1
    /\ req' = [req EXCEPT ![1] =
                [Call(Idle, "matchHost") EXCEPT !.method = method, !.domain = domain,
                                                !.path = path, !.authHeader = authHeader]]
    /\ UNCHANGED <<listen, env, file, holder, caches, mon, watch, events, nchg>>

\* static mode; the requests come one at a time, with any method
NextMethods ==
    \/ \E method \in Methods, domain \in Domains, path \in Paths, authHeader \in AuthHeaders :
          StartMethod(method, domain, path, authHeader)
    \/ Handle

SpecMethods == InitStatic /\ [][NextMethods]_vars

\* C24: the response of an answered request is the one of its verdict, whatever
\* the method: DomainDenied 403 without WWW-Authenticate; the three grants 200;
\* BasicAuthRequired 401 with a Basic challenge; BearerHeaderMissing 401 with
\* Bearer realm token_required; BearerTokenUnknown 401 with error invalid_token;
\* BearerPathDenied 403 with error not_allowed
C24_OneResponsePerVerdict ==
    \A w \in Workers :
        (req[w].ph = "done" /\ req[w].verdict \in Verdicts)
            => LET r == ResponseOf(req[w].verdict, req[w].method)
                   v == req[w].verdict
               IN  /\ v = "DomainDenied" => r.status = "403" /\ r.scheme = ""
                   /\ v \in {"NoAuthGranted", "BasicAuthGranted", "BearerPathGranted"}
                         => r.status = "200"
                   /\ v = "BasicAuthRequired" => r.status = "401" /\ r.scheme = "Basic"
                   /\ v = "BearerHeaderMissing"
                         => /\ r.status = "401" /\ r.scheme = "Bearer"
                            /\ r.realm = "token_required" /\ r.error = ""
                   /\ v = "BearerTokenUnknown"
                         => /\ r.status = "401" /\ r.scheme = "Bearer"
                            /\ r.error = "invalid_token"
                   /\ v = "BearerPathDenied"
                         => /\ r.status = "403" /\ r.scheme = "Bearer"
                            /\ r.error = "not_allowed"

\* a POST request with a configured token for a path that is not allowed was
\* answered 403 with error not_allowed, after another request was answered
C24_Witness ==
    /\ nreq = MaxRequests
    /\ \E w \in Workers :
          /\ req[w].ph = "done"
          /\ req[w].method = "POST"
          /\ req[w].verdict = "BearerPathDenied"
          /\ ResponseOf(req[w].verdict, req[w].method)
                = [status |-> "403", scheme |-> "Bearer", realm |-> "token_required",
                   error |-> "not_allowed"]

(***************************************************************************)
(* C25                                                                     *)
(***************************************************************************)
\* C25: the policy is a function of the text it was loaded from, and what
\* matchBasicAuthPath leaves in its cache for a domain and a path, from which the
\* later requests are answered, does not depend on the order in which its loop
\* visits the keys of the basic-auth map: it is true exactly when a path key of
\* the matched host matches the path
C25_SameDocumentSameVerdict ==
    /\ holder = makeHolder(StartText)
    /\ (\A w \in Workers : req[w].ph \in {"idle", "done"})
          => \A domain \in Domains, path \in Paths :
                LET key == domain \o Tab \o path
                    h == ValidPatterns(holder)
                IN  CacheContains(caches["matchBasicAuthPath"], key)
                       => \E i \in MatchingHosts(h, domain) :
                             CacheValue(caches["matchBasicAuthPath"], key, FALSE)
                                = BasicAuthPath(h, GetHosts(h)[i], path)

(***************************************************************************)
(* C26                                                                     *)
(***************************************************************************)
\* C26: with the policy unchanged, every request is answered as an evaluation of
\* its domain, path and header alone would be, however its steps interleave
\* with those of the other requests in progress
C26_InterleavingFree ==
    \A w \in Workers :
        Settled(w)
            => req[w].verdict
                  \in Decisions(holder, req[w].domain, req[w].path, req[w].authHeader)

(***************************************************************************)
(* C27                                                                     *)
(***************************************************************************)
\* C27: a request that is handled while a reload replaces the policy, also the
\* first request of the process, is answered with a verdict that one of the
\* documents gives for its domain, path and header
C27_OldOrNewVerdict ==
    \A w \in Workers :
        (req[w].ph = "done" /\ req[w].dirty /\ nreq = 1)
            => \E p \in Policies :
                  req[w].verdict
                     \in Decisions(p, req[w].domain, req[w].path, req[w].authHeader)

(***************************************************************************)
(* C28                                                                     *)
(***************************************************************************)
\* paths and headers with the tab character: the path /m/x%09api.x.com%09/m/y of
\* a request line is decoded into URL.Path, and a header value may hold tabs
TabPaths == {"/m/y", "/m/x" \o Tab \o "api.x.com" \o Tab \o "/m/y"}
TabHeaders ==
    {"Basic dTpwdw==", "Basic dTpwdw==" \o Tab \o "api.x.com" \o Tab \o "/m/x",
     "Bearer T1", "Bearer T1" \o Tab \o "api.x.com" \o Tab \o "/m/x"}

\* static mode; the requests come one at a time
NextTabs ==
    \/ \E domain \in Domains, path \in TabPaths, authHeader \in TabHeaders :
          StartAlone(domain, path, authHeader)
    \/ Handle

SpecTabs == InitStatic /\ [][NextTabs]_vars

\* C28: a result of verifyBasicAuth or matchBearerAuthPath is returned only for
\* the header or token, the domain and the path it was computed for, also when
\* they hold tabs: a request is answered BasicAuthGranted only if its own header
\* carries credentials that grant its own path, and BearerPathGranted only if
\* its own token is allowed its own path
C28_ExactSubject ==
    \A w \in Workers :
        Settled(w)
            => /\ req[w].verdict = "BasicAuthGranted"
                     => BasicGrant(holder, req[w].host, req[w].path, req[w].authHeader)
               /\ req[w].verdict = "BearerPathGranted"
                     => AllowedPath(holder, req[w].host, tokenRe(req[w].authHeader),
                                    req[w].path)

(***************************************************************************)
(* C29                                                                     *)
(***************************************************************************)
\* none of the keys the match functions use for the request is in a cache
FreshKeys(domain, path, authHeader) ==
    LET r == [domain |-> domain, path |-> path, authHeader |-> authHeader] IN
    \A fn \in MatchFunctions :
        (fn = "matchBearerAuthPath" => tokenRe(authHeader) # Null)
            => ~CacheContains(caches[fn], KeyOf(fn, r))

\* a request arrives, none of whose keys is in a cache, while no other request
\* is in progress
StartFresh(domain, path, authHeader) ==
    /\ \A w \in Workers : req[w].ph = "idle"
    /\ FreshKeys(domain, path, authHeader)
    /\ StartAlone(domain, path, authHeader)

\* both modes; every request arrives with keys that are in no cache
NextFresh ==
    \/ Environment
    \/ Monitor
    \/ \E domain \in Domains, path \in Paths, authHeader \in AuthHeaders :
          StartFresh(domain, path, authHeader)
    \/ Handle

SpecFresh == InitModes /\ [][NextFresh]_vars

KeysOf(c) == {c[i].k : i \in 1..Len(c)}

C31_FaultLeavesNoEntry ==
    [][\A w \in Workers :
          (req[w].ph # "done" /\ req'[w].ph = "done" /\ req'[w].verdict = Fault)
              => ~CacheContains(caches'[req[w].fn], KeyOf(req[w].fn, req[w]))]_vars

(***************************************************************************)
(* C32                                                                     *)
(***************************************************************************)
\* the host strings and the tokens the accessors are asked about: those of the
\* loaded policy, and some that no document of the model configures
AskedHosts ==
    {GetHosts(holder)[i] : i \in 1..Len(GetHosts(holder))}
        \cup DOMAIN holder.bearerTokens \cup DOMAIN holder.bearerTokenAllowedPaths
        \cup {"api.x.com", "^web[.].+$", ""}
AskedTokens ==
    UNION {DOMAIN holder.bearerTokenAllowedPaths[h] : h \in DOMAIN holder.bearerTokenAllowedPaths}
        \cup UNION {{holder.bearerTokens[h][i] : i \in 1..Len(holder.bearerTokens[h])} :
                        h \in DOMAIN holder.bearerTokens}
        \cup {"T1", "T2", "T3", ""}

\* token is an element of GetTokens(host)
InTokens(h, host, token) ==
    \E n \in 1..Len(GetTokens(h, host)) : GetTokens(h, host)[n] = token

\* C32: when no load is in progress, for every host string and token the token
\* is in GetTokens exactly when HasToken is true and exactly when GetAllowedPaths
\* is not empty, and for a host string that is not configured all three report
\* absence
C32_AccessorsAgree ==
    MonitorQuiet =>
        \A host \in AskedHosts, token \in AskedTokens :
            /\ InTokens(holder, host, token) <=> HasToken(holder, host, token)
            /\ HasToken(holder, host, token) <=> Len(GetAllowedPaths(holder, host, token)) > 0
            /\ (\A i \in 1..Len(GetHosts(holder)) : GetHosts(holder)[i] # host)
                  => /\ ~InTokens(holder, host, token)
                     /\ ~HasToken(holder, host, token)
                     /\ Len(GetAllowedPaths(holder, host, token)) = 0

\* the policy was loaded from DocC and a request was served: under the first
\* host the three accessors report T1 and neither T2 nor T3, and under a host
\* string outside the document they report nothing
C32_Witness ==
    /\ StartText = DocC
    /\ MonitorQuiet
    /\ GetTokens(holder, "^api[.].+$") = <<"T1">>
    /\ HasToken(holder, "^api[.].+$", "T1")
    /\ Len(GetAllowedPaths(holder, "^api[.].+$", "T1")) = 1
    /\ ~HasToken(holder, "^api[.].+$", "T3")
    /\ GetTokens(holder, "api.x.com") = << >>
    /\ \E w \in Workers : req[w].ph = "done" /\ req[w].authHeader = "Bearer T1"

(***************************************************************************)
(* C33                                                                     *)
(***************************************************************************)
\* the positions of the entries of the list whose host string is host
EntriesOf(list, host) == {i \in 1..Len(list) : list[i].Host = host}

\* C33: for every host string that two entries of the loaded document share,
\* the policy of the host has the usable bearer tokens and the basic-auth rules
\* of every such entry, its no-auth paths are those of the last such entry
\* only, and GetHosts lists the host string once per entry
C33_DuplicateHostMerged ==
    LET list == Unmarshal(StartText).list IN
    \A i \in 1..Len(list) :
        LET host == list[i].Host
            same == EntriesOf(list, host)
            last == CHOOSE n \in same : \A m \in same : m <= n
        IN  Cardinality(same) >= 2 =>
               /\ \A n \in same :
                     /\ \A j \in 1..Len(list[n].BearerTokens) :
                           Usable(list[n].BearerTokens[j])
                              => /\ InTokens(holder, host, list[n].BearerTokens[j].Token)
                                 /\ HasToken(holder, host, list[n].BearerTokens[j].Token)
                     /\ \A j \in 1..Len(list[n].BasicAuths) :
                           LET a == list[n].BasicAuths[j] IN
                           \A k \in 1..Len(a.RawAllowedPaths) :
                               /\ a.RawAllowedPaths[k] \in DOMAIN GetBasicAuthConf(holder, host)
                               /\ a.Username
                                     \in DOMAIN GetBasicAuthConf(holder, host)[a.RawAllowedPaths[k]]
               /\ GetNoAuthPaths(holder, host) = list[last].NoAuths
               /\ Cardinality({n \in 1..Len(GetHosts(holder)) : GetHosts(holder)[n] = host})
                     = Cardinality(same)

\* the policy was loaded from DocDup: the host is listed twice with the tokens
\* and the users of both entries and the no-auth paths of the second, so that
\* /a/1 without header was not exempted
C33_Witness ==
    /\ StartText = DocDup
    /\ GetHosts(holder) = <<"^api[.].+$", "^api[.].+$">>
    /\ GetTokens(holder, "^api[.].+$") = <<"T1", "T2">>
    /\ DOMAIN GetBasicAuthConf(holder, "^api[.].+$")["^/m/.+$"] = {"u", "v"}
    /\ GetNoAuthPaths(holder, "^api[.].+$") = << >>
    /\ \E w \in Workers :
          /\ req[w].ph = "done"
          /\ req[w].domain = "api.x.com" /\ req[w].path = "/a/1" /\ req[w].authHeader = ""
          /\ req[w].verdict = "BearerHeaderMissing"

(***************************************************************************)
(* C34                                                                     *)
(***************************************************************************)
\* the values of LISTEN_PORT in the model: an optional sign or a blank before
\* numbers inside and outside of the range of ports, numbers with leading
\* zeros, numbers outside of int64 and texts that are not decimal numbers
PortValues ==
    {sign \o body :
        sign \in {"", "+", "-", " "},
        body \in {"", "0", "1", "80", "080", "3000", "8080", "65535", "65536", "065535",
                  "99999", "dummy", "80a", "8 0", "1.5", "0x50", "1_000",
                  "9223372036854775807", "9223372036854775808", "99999999999999999999"}}

\* main before handler.Run: the handler is built from an empty AUTH_TOKENS and
\* LISTEN_PORT is not set or has any of the values
InitPort ==
    /\ env = [path |-> "", tokens |-> None(EmptyArray)]
    /\ file = None(EmptyArray)
    /\ mon = MonOff
    /\ holder = NewHolder(env, file)
    /\ caches = [f \in MatchFunctions |-> << >>]
    /\ req = [w \in Workers |-> Idle]
    /\ watch = FALSE
    /\ events = 0
    /\ nreq = 0
    /\ nchg = 0
    /\ listen \in {[port |-> e, addr |-> Null] : e \in {None("")} \cup {Some(p) : p \in PortValues}}

\* handler.Run(getListenPort())
Run ==
    /\ listen.addr = Null
    /\ listen' = [listen EXCEPT !.addr = getListenPort(listen.port)]
    /\ UNCHANGED <<env, file, holder, caches, req, mon, watch, events, nreq, nchg>>

SpecPort == InitPort /\ [][Run]_vars

\* C34: the address handed to handler.Run is a colon followed by the value of
\* LISTEN_PORT when the value is the decimal text of an integer from 1 to 65535,
\* with or without a plus sign and leading zeros, and :8080 in every other case
C34_ListenPort ==
    listen.addr # Null =>
        LET v == IF listen.port.present THEN listen.port.v ELSE ""
            body == IF HasPrefix(v, "+") THEN SubSeq(v, 2, Len(v)) ELSE v
            inRange == \E n \in 1..65535 : \E z \in 0..(Len(body) - 1) :
                          /\ \A i \in 1..z : CharAt(body, i) = "0"
                          /\ SubSeq(body, z + 1, Len(body)) = ToString(n)
        IN  listen.addr = IF inRange THEN ":" \o v ELSE ":8080"

\* LISTEN_PORT was 3000 and handler.Run was given :3000
C34_Witness ==
    /\ listen.port = Some("3000")
    /\ listen.addr = ":3000"

====
